---- MODULE Spec2Model ----
(***************************************************************************)
(* Model of offer.py: the McArthurGlen offers scraper.                     *)
(*                                                                         *)
(* Text is a sequence of one-character strings, so that strip(), the       *)
(* PCT_RE search and Python's lexical comparison are computed on           *)
(* characters.  An optional value (Python None, a missing dict key, a DOM  *)
(* element that is not there) is a sequence of length 0 or 1.              *)
(***************************************************************************)
EXTENDS Naturals, Integers, Sequences, FiniteSets, TLC

VARIABLES
    pc,          \* position of run() (line about to execute), or "idle"/"done"/"failed"
    err,         \* the exception that ended the run: "none", "automation", "KeyError"
    runs,        \* number of runs started so far
    fLatest,     \* content of offers_latest.json
    fPrev,       \* content of offers_latest.prev.json
    fCsv,        \* content of offers_latest.csv
    startFiles,  \* <<fLatest, fPrev, fCsv>> as they were when the current run started
    written,     \* the state files the current run has written so far
    pageMode,    \* how the page's height behaves: "free", "settled", "osc"
    pageAct,     \* the last page.evaluate action performed
    last_h,      \* auto_scroll local
    idle,        \* auto_scroll local
    log,         \* baseline 0 followed by the heights measured, last IdleRounds+1 kept
    cards,       \* the offer-card nodes of the page (extract_cards input)
    rows,        \* run local: extract_cards result
    prev,        \* run local: load_json(STATE_PREV) result
    added,       \* run local / diff result
    removed,     \* run local / diff result
    out          \* lines of the change summary printed by the current run

vars == <<pc, err, runs, fLatest, fPrev, fCsv, startFiles, written, pageMode,
          pageAct, last_h, idle, log, cards, rows, prev, added, removed, out>>

(***************************************************************************)
(* Bounds                                                                  *)
(***************************************************************************)
MaxCards == 4      \* cards on a page (extraction specification)
MaxSnap == 2       \* records in a snapshot (diff specification)
MaxHeight == 3     \* page heights are 0..MaxHeight
MaxRuns == 3       \* runs in a row

(***************************************************************************)
(* Program constants                                                       *)
(***************************************************************************)
IdleRounds == 4
OFFERS_URL == "https://www.mcarthurglen.com/en/outlets/ca/designer-outlet-vancouver/offers/"
STATE_JSON == "offers_latest.json"
STATE_PREV == "offers_latest.prev.json"
STATE_CSV == "offers_latest.csv"

(***************************************************************************)
(* Optional values                                                         *)
(***************************************************************************)
None == <<>>
Some(v) == <<v>>
IsNone(o) == o = <<>>
Val(o) == o[1]

(***************************************************************************)
(* Characters and text                                                     *)
(***************************************************************************)
\* The characters in use, in code point order: Ord is order-isomorphic to ord().
Alphabet == <<" ", "%", "0", "1", "2", "3", "4", "5", "6", "7", "8", "9",
              "B", "U", "a", "k", "n", "o", "w", "x", "y">>
Ord(c) == CHOOSE i \in 1..Len(Alphabet) : Alphabet[i] = c
Digits == <<"0", "1", "2", "3", "4", "5", "6", "7", "8", "9">>
IsDigit(c) == \E i \in 1..10 : Digits[i] = c
DigitVal(c) == (CHOOSE i \in 1..10 : Digits[i] = c) - 1
IsSpace(c) == c = " "

\* Python's < on str: lexicographic by code point, a proper prefix is smaller.
RECURSIVE StrLess(_, _)
StrLess(a, b) ==
    IF b = <<>> THEN FALSE
    ELSE IF a = <<>> THEN TRUE
    ELSE IF Head(a) = Head(b) THEN StrLess(Tail(a), Tail(b))
    ELSE Ord(Head(a)) < Ord(Head(b))
StrLeq(a, b) == a = b \/ StrLess(a, b)

\* str.strip()
RECURSIVE LStrip(_)
LStrip(s) == IF s # <<>> /\ IsSpace(Head(s)) THEN LStrip(Tail(s)) ELSE s
RECURSIVE RStrip(_)
RStrip(s) ==
    IF s # <<>> /\ IsSpace(s[Len(s)]) THEN RStrip(SubSeq(s, 1, Len(s) - 1)) ELSE s
Strip(s) == RStrip(LStrip(s))

\* int(digits)
RECURSIVE ParseInt(_)
ParseInt(s) ==
    IF s = <<>> THEN 0
    ELSE 10 * ParseInt(SubSeq(s, 1, Len(s) - 1)) + DigitVal(s[Len(s)])

\* str(n) for n >= 0
RECURSIVE IntToStr(_)
IntToStr(n) ==
    IF n < 10 THEN <<Digits[n + 1]>>
    ELSE Append(IntToStr(n \div 10), Digits[(n % 10) + 1])

(***************************************************************************)
(* PCT_RE = (\d{1,3})\s*%  and  PCT_RE.search                              *)
(***************************************************************************)
\* Position of the first non-space character at or after j (Len(s)+1 if none).
RECURSIVE SkipSpace(_, _)
SkipSpace(s, j) ==
    IF j <= Len(s) /\ IsSpace(s[j]) THEN SkipSpace(s, j + 1) ELSE j

\* n digits at i, then \s*, then %.
PctMatchLen(s, i, n) ==
    /\ i + n - 1 <= Len(s)
    /\ \A k \in i..(i + n - 1) : IsDigit(s[k])
    /\ LET j == SkipSpace(s, i + n) IN j <= Len(s) /\ s[j] = "%"

\* The match at i: the longest of 3, 2, 1 digits that matches (greedy), 0 if none.
PctMatchAt(s, i) ==
    IF PctMatchLen(s, i, 3) THEN 3
    ELSE IF PctMatchLen(s, i, 2) THEN 2
    ELSE IF PctMatchLen(s, i, 1) THEN 1
    ELSE 0

\* m = PCT_RE.search(title); int(m.group(1)) if m else None
PCT_RE_search(s) ==
    LET starts == {i \in 1..Len(s) : PctMatchAt(s, i) > 0} IN
    IF starts = {} THEN None
    ELSE LET i == CHOOSE i \in starts : \A j \in starts : i <= j IN
         Some(ParseInt(SubSeq(s, i, i + PctMatchAt(s, i) - 1)))

(***************************************************************************)
(* abs_url: urljoin(OFFERS_URL, href or "") on the hrefs that occur        *)
(***************************************************************************)
abs_url(base, href) ==
    CASE href = "" -> base
      [] href = "/sale" -> "https://www.mcarthurglen.com/sale"
      [] href = "https://www.mcarthurglen.com/sale" -> href

(***************************************************************************)
(* safe_inner_text / safe_attr: "" when the element is missing             *)
(***************************************************************************)
safe_inner_text(el) == IF IsNone(el) THEN <<>> ELSE Strip(Val(el))
safe_attr(el) == IF IsNone(el) THEN "" ELSE Val(el)

(***************************************************************************)
(* extract_cards                                                           *)
(***************************************************************************)
\* A card node: brand, title, cats are the text of the three test-id nodes,
\* media and anyLink the href of the first link in the media area and of the
\* first link of the card; each is None when the node is not there.
Unknown == <<"U", "n", "k", "n", "o", "w", "n">>

\* Lines 63-83: the record built from one card.
CardRecord(card) ==
    LET brand == safe_inner_text(card.brand)
        title == safe_inner_text(card.title)
        cats == safe_inner_text(card.cats)
        link_el == IF ~IsNone(card.media) THEN card.media ELSE card.anyLink
        href == safe_attr(link_el)
    IN [brand |-> IF brand = <<>> THEN Unknown ELSE brand,
        discount_percent |-> PCT_RE_search(title),
        title |-> title,
        categories |-> cats,
        link |-> abs_url(OFFERS_URL, href)]

Results(cs) == [i \in 1..Len(cs) |-> CardRecord(cs[i])]

\* Line 88: the dedup key.
DedupKey(r) == <<r.brand, r.title, r.link>>

\* Lines 86-92, with uniq[key] = r done for every record: the last one wins.
RECURSIVE DedupLastWins(_)
DedupLastWins(results) ==
    IF results = <<>> THEN <<>>
    ELSE LET r == Head(results)
             rest == DedupLastWins(Tail(results))
         IN IF \E i \in 1..Len(rest) : DedupKey(rest[i]) = DedupKey(r)
            THEN rest
            ELSE <<r>> \o rest

\* Lines 86-92: uniq keeps the first record of each key, in insertion order.
RECURSIVE Dedup(_)
Dedup(results) ==
    IF results = <<>> THEN <<>>
    ELSE LET n == Len(results)
             init == Dedup(SubSeq(results, 1, n - 1))
             r == results[n]
         IN IF \E i \in 1..Len(init) : DedupKey(init[i]) = DedupKey(r)
            THEN init
            ELSE Append(init, r)

\* Line 93 with "discount_percent or 0": None sorts with 0.
SortKeyNoneAsZero(r) ==
    <<-(IF IsNone(r.discount_percent) THEN 0 ELSE Val(r.discount_percent)), r.brand>>

\* Line 93: the sort key (-(percent, or -1 for None), brand).
SortKey(r) ==
    <<-(IF ~IsNone(r.discount_percent) THEN Val(r.discount_percent) ELSE -1), r.brand>>

\* Python's < on the key tuples.
KeyLess(k1, k2) == k1[1] < k2[1] \/ (k1[1] = k2[1] /\ StrLess(k1[2], k2[2]))

\* list.sort is stable: r goes before the first element with a greater key.
RECURSIVE SortInsert(_, _)
SortInsert(sorted, r) ==
    IF sorted = <<>> THEN <<r>>
    ELSE IF KeyLess(SortKey(r), SortKey(Head(sorted)))
         THEN <<r>> \o sorted
         ELSE <<Head(sorted)>> \o SortInsert(Tail(sorted), r)

RECURSIVE Sort(_)
Sort(rs) ==
    IF rs = <<>> THEN <<>>
    ELSE SortInsert(Sort(SubSeq(rs, 1, Len(rs) - 1)), rs[Len(rs)])

extract_cards(cs) == Sort(Dedup(Results(cs)))

(***************************************************************************)
(* Snapshot store: save_json, save_csv, load_json                          *)
(***************************************************************************)
\* A file is absent, holds text json.loads rejects, or holds the text of a
\* JSON value (kept as the value) or of a CSV table (kept as its rows).
Absent == [kind |-> "absent", val |-> <<>>]
Corrupt == [kind |-> "corrupt", val |-> <<>>]

\* Line 97: json.dumps(rows) written to the file.
save_json(rs) == [kind |-> "json", val |-> rs]

\* dict.get(k): None for a missing key.
Get(o, k) == IF k \in DOMAIN o THEN Some(o[k]) ELSE None

Cols == <<"brand", "discount_percent", "title", "categories", "link">>

\* Line 105: r.get(c, ""), and csv writes None as the empty string.
CsvCell(r, c) ==
    IF c \notin DOMAIN r THEN <<>>
    ELSE IF c = "discount_percent"
         THEN (IF IsNone(r[c]) THEN <<>> ELSE IntToStr(Val(r[c])))
         ELSE r[c]

\* Lines 99-105: the header and one line per record.
save_csv(rs) ==
    [kind |-> "csv",
     val |-> <<Cols>> \o [i \in 1..Len(rs) |-> [j \in 1..5 |-> CsvCell(rs[i], Cols[j])]]]

\* Lines 107-113.
load_json(file) ==
    IF file.kind = "absent" THEN <<>>
    ELSE IF file.kind # "json" THEN <<>>
    ELSE file.val

(***************************************************************************)
(* diff                                                                    *)
(***************************************************************************)
\* The key with the link in it, as the dedup key has.
DiffKeyWithLink(o) == <<Get(o, "brand"), Get(o, "title"), Get(o, "link")>>

\* Lines 116-119: (o.get("brand"), o.get("title")).
DiffKey(o) == <<Get(o, "brand"), Get(o, "title")>>

KeySet(rs) == {DiffKey(rs[i]) : i \in 1..Len(rs)}

\* [o for o in rs if key(o) in keys]
RECURSIVE Filter(_, _)
Filter(rs, keys) ==
    IF rs = <<>> THEN <<>>
    ELSE (IF DiffKey(Head(rs)) \in keys THEN <<Head(rs)>> ELSE <<>>)
         \o Filter(Tail(rs), keys)

\* diff with the set differences of lines 118-119 left out.
diffNoSubtract(old, new) ==
    LET ok == KeySet(old)
        nk == KeySet(new)
    IN <<Filter(new, nk), Filter(old, ok)>>

\* Lines 115-120.
diff(old, new) ==
    LET ok == KeySet(old)
        nk == KeySet(new)
    IN <<Filter(new, nk \ ok), Filter(old, ok \ nk)>>

(***************************************************************************)
(* Inputs                                                                  *)
(***************************************************************************)
T_a == <<"a">>
T_B == <<"B">>
T_5pct == <<"5", "%">>
T_0pct == <<"0", "%">>
T_40pct == <<"4", "0", " ", "%">>
T_1234pct == <<"1", "2", "3", "4", "%">>
T_x == <<"x">>
T_y == <<"y">>

Card(b, t, c, m, l) == [brand |-> b, title |-> t, cats |-> c, media |-> m, anyLink |-> l]

\* The cards pages are made of.  2 is 1 with other categories (its brand
\* strips to 1's and its link resolves to 1's); 3 is 1 with another link.
CardPool ==
    << Card(Some(T_a), Some(T_5pct), Some(T_x), Some("/sale"), Some("/sale")),
       Card(Some(<<" ", "a", " ">>), Some(T_5pct), Some(T_y), None,
            Some("https://www.mcarthurglen.com/sale")),
       Card(Some(T_a), Some(T_5pct), Some(T_x), Some(""), Some("/sale")),
       Card(None, Some(T_0pct), None, Some("/sale"), Some("/sale")),
       Card(Some(T_B), Some(T_x), Some(T_x), None, None),
       Card(Some(T_B), Some(T_0pct), Some(T_y), None, Some("/sale")),
       Card(Some(T_a), Some(T_1234pct), Some(T_x), Some("/sale"), Some("/sale")),
       Card(Some(T_B), Some(T_40pct), Some(T_x), Some("/sale"), Some("/sale")),
       Card(Some(T_a), Some(<<"x", " ", "4", "0", "%">>), None, Some("/sale"), Some("/sale")) >>

Cards == {CardPool[i] : i \in 1..Len(CardPool)}

SeqsUpTo(S, n) == UNION {[1..k -> S] : k \in 0..n}

\* Pages of the extraction specification.
Pages == SeqsUpTo(Cards, MaxCards)

\* Pages a run may find.
RunPages ==
    { <<>>,
      <<CardPool[5], CardPool[1]>>,
      <<CardPool[1], CardPool[8], CardPool[2], CardPool[3]>> }

\* Records of an earlier schema: no brand, no title, or neither link nor categories.
OldNoBrand == [title |-> T_x, link |-> "/sale"]
OldNoTitle == [brand |-> T_B, discount_percent |-> Some(5)]
OldKeyOnly == [brand |-> T_B, title |-> T_x]

\* Records snapshots of the diff specification are made of.
RecordPool ==
    { CardRecord(CardPool[1]), CardRecord(CardPool[3]), CardRecord(CardPool[5]),
      CardRecord(CardPool[8]), OldNoBrand, OldNoTitle, OldKeyOnly }

Snapshots == SeqsUpTo(RecordPool, MaxSnap)

\* What offers_latest.prev.json may hold before the first run.
InitPrevFiles ==
    { Absent, Corrupt,
      save_json(<<OldKeyOnly>>),
      save_json(<<OldNoBrand>>),
      save_json(<<CardRecord(CardPool[8]), OldNoTitle>>),
      save_json(extract_cards(<<CardPool[5], CardPool[1]>>)) }

(***************************************************************************)
(* auto_scroll                                                             *)
(***************************************************************************)
Last(q) == q[Len(q)]

\* The number of measurements at the end of q that did not exceed their predecessor.
RECURSIVE TrailingNonInc(_)
TrailingNonInc(q) ==
    IF Len(q) < 2 THEN 0
    ELSE IF q[Len(q)] <= q[Len(q) - 1]
         THEN 1 + TrailingNonInc(SubSeq(q, 1, Len(q) - 1))
         ELSE 0

\* q with h appended, the last IdleRounds+1 entries kept.
Logged(q, h) ==
    LET a == Append(q, h) IN
    IF Len(a) > IdleRounds + 1 THEN SubSeq(a, Len(a) - IdleRounds, Len(a)) ELSE a

\* The heights the page may show at the next measurement.  A settled page
\* never grows again; an oscillating page grows at least once in every
\* IdleRounds measurements (and so does not rest at MaxHeight before it must grow).
HeightAllowed(h) ==
    CASE pageMode = "free" -> TRUE
      [] pageMode = "settled" -> h <= Last(log)
      [] pageMode = "osc" ->
            IF TrailingNonInc(log) >= IdleRounds - 1 THEN h > Last(log)
            ELSE h > Last(log) \/ TrailingNonInc(log) + 1 < IdleRounds - 1 \/ h < MaxHeight

\* Lines 39-42 with the else branch lost: the counter is never reset.
IdleNextNoReset(h, last, n) == IF h <= last THEN n + 1 ELSE n

\* Lines 39-42 with < for <=: an unchanged height does not count as idle.
IdleNextStrict(h, last, n) == IF h < last THEN n + 1 ELSE 0

\* Lines 39-42.
IdleNext(h, last, n) == IF h <= last THEN n + 1 ELSE 0

\* Line 34.
AutoScrollEnter ==
    /\ pc = "auto_scroll"
    /\ last_h' = 0
    /\ idle' = 0
    /\ log' = <<0>>
    /\ pc' = "scroll_loop"
    /\ UNCHANGED <<err, runs, fLatest, fPrev, fCsv, startFiles, written, pageMode,
                   pageAct, cards, rows, prev, added, removed, out>>

\* Lines 35-36: the loop goes on; the page is scrolled to its bottom.
ScrollBottom ==
    /\ pc = "scroll_loop"
    /\ idle < IdleRounds
    /\ pageAct' = "scrollTo(0, document.body.scrollHeight)"
    /\ pc' = "scroll_wait"
    /\ UNCHANGED <<err, runs, fLatest, fPrev, fCsv, startFiles, written, pageMode,
                   last_h, idle, log, cards, rows, prev, added, removed, out>>

\* Line 37: the delay that lets lazy content load.
ScrollWait ==
    /\ pc = "scroll_wait"
    /\ pc' = "scroll_measure"
    /\ UNCHANGED <<err, runs, fLatest, fPrev, fCsv, startFiles, written, pageMode,
                   pageAct, last_h, idle, log, cards, rows, prev, added, removed, out>>

\* Lines 38-43: the height is measured and the counter updated.
ScrollMeasure ==
    /\ pc = "scroll_measure"
    /\ \E h \in 0..MaxHeight :
          /\ HeightAllowed(h)
          /\ idle' = IdleNext(h, last_h, idle)
          /\ last_h' = h
          /\ log' = Logged(log, h)
    /\ pageAct' = "scrollHeight"
    /\ pc' = "scroll_loop"
    /\ UNCHANGED <<err, runs, fLatest, fPrev, fCsv, startFiles, written, pageMode,
                   cards, rows, prev, added, removed, out>>

\* Lines 35 and 44: the loop ends, the page is scrolled back to the top.
ScrollTop ==
    /\ pc = "scroll_loop"
    /\ ~(idle < IdleRounds)
    /\ pageAct' = "scrollTo(0, 0)"
    /\ pc' = "extract_cards"
    /\ UNCHANGED <<err, runs, fLatest, fPrev, fCsv, startFiles, written, pageMode,
                   last_h, idle, log, cards, rows, prev, added, removed, out>>

\* The page stops growing.
PageSettles ==
    /\ pageMode = "free"
    /\ pc \in {"auto_scroll", "scroll_loop", "scroll_wait", "scroll_measure"}
    /\ pageMode' = "settled"
    /\ UNCHANGED <<pc, err, runs, fLatest, fPrev, fCsv, startFiles, written,
                   pageAct, last_h, idle, log, cards, rows, prev, added, removed, out>>

(***************************************************************************)
(* run                                                                     *)
(***************************************************************************)
\* Lines 148-169 with the rotation moved before the load of the previous snapshot.
RunOrderRotateFirst ==
    <<"launch", "goto", "auto_scroll", "extract_cards", "save_latest", "save_csv",
      "rotate", "load_prev", "diff", "print_changes", "close", "done">>

\* Lines 137-172: the statements of run in order (auto_scroll has its own positions).
RunOrder ==
    <<"launch", "goto", "auto_scroll", "extract_cards", "load_prev", "save_latest",
      "save_csv", "diff", "print_changes", "rotate", "close", "done">>

After(p) == RunOrder[(CHOOSE i \in 1..Len(RunOrder) : RunOrder[i] = p) + 1]

\* The positions at which run awaits the browser: the automation may raise
\* there, and a cancellation of the run is delivered there.
AwaitPoints ==
    {"launch", "goto", "scroll_loop", "scroll_wait", "scroll_measure", "extract_cards", "close"}

Files == <<fLatest, fPrev, fCsv>>

\* asyncio.run(run(...)): a run starts; the locals of an earlier run are gone.
StartRun ==
    /\ pc \in {"idle", "done", "failed"}
    /\ runs < MaxRuns
    /\ runs' = runs + 1
    /\ pc' = RunOrder[1]
    /\ err' = "none"
    /\ startFiles' = Files
    /\ written' = {}
    /\ pageAct' = "none"
    /\ last_h' = 0
    /\ idle' = 0
    /\ log' = <<>>
    /\ cards' = <<>>
    /\ rows' = <<>>
    /\ prev' = <<>>
    /\ added' = <<>>
    /\ removed' = <<>>
    /\ out' = <<>>
    /\ UNCHANGED <<fLatest, fPrev, fCsv, pageMode>>

\* Lines 137-141.
Launch ==
    /\ pc = "launch"
    /\ pc' = After("launch")
    /\ UNCHANGED <<err, runs, fLatest, fPrev, fCsv, startFiles, written, pageMode,
                   pageAct, last_h, idle, log, cards, rows, prev, added, removed, out>>

\* Lines 143-144.
Goto ==
    /\ pc = "goto"
    /\ pc' = After("goto")
    /\ UNCHANGED <<err, runs, fLatest, fPrev, fCsv, startFiles, written, pageMode,
                   pageAct, last_h, idle, log, cards, rows, prev, added, removed, out>>

\* Lines 148-149: the page shows some cards; auto_scroll's locals are gone.
Extract ==
    /\ pc = "extract_cards"
    /\ \E page \in RunPages :
          /\ cards' = page
          /\ rows' = extract_cards(page)
    /\ last_h' = 0
    /\ idle' = 0
    /\ log' = <<>>
    /\ pc' = After("extract_cards")
    /\ UNCHANGED <<err, runs, fLatest, fPrev, fCsv, startFiles, written, pageMode,
                   pageAct, prev, added, removed, out>>

\* Line 152.
LoadPrev ==
    /\ pc = "load_prev"
    /\ prev' = load_json(fPrev)
    /\ pc' = After("load_prev")
    /\ UNCHANGED <<err, runs, fLatest, fPrev, fCsv, startFiles, written, pageMode,
                   pageAct, last_h, idle, log, cards, rows, added, removed, out>>

\* Line 154.
SaveLatest ==
    /\ pc = "save_latest"
    /\ fLatest' = save_json(rows)
    /\ written' = written \cup {STATE_JSON}
    /\ pc' = After("save_latest")
    /\ UNCHANGED <<err, runs, fPrev, fCsv, startFiles, pageMode,
                   pageAct, last_h, idle, log, cards, rows, prev, added, removed, out>>

\* Lines 155-156.
SaveCsv ==
    /\ pc = "save_csv"
    /\ fCsv' = save_csv(rows)
    /\ written' = written \cup {STATE_CSV}
    /\ pc' = After("save_csv")
    /\ UNCHANGED <<err, runs, fLatest, fPrev, startFiles, pageMode,
                   pageAct, last_h, idle, log, cards, rows, prev, added, removed, out>>

\* Line 158.
Diff ==
    /\ pc = "diff"
    /\ added' = diff(prev, rows)[1]
    /\ removed' = diff(prev, rows)[2]
    /\ pc' = After("diff")
    /\ UNCHANGED <<err, runs, fLatest, fPrev, fCsv, startFiles, written, pageMode,
                   pageAct, last_h, idle, log, cards, rows, prev, out>>

\* a['brand'], a['title'] (lines 162, 164) raise KeyError on a record without them.
Printable(r) == "brand" \in DOMAIN r /\ "title" \in DOMAIN r

SummaryLines(sign, rs) == [i \in 1..Len(rs) |-> <<sign, rs[i].brand, rs[i].title>>]

\* The records of rs before the first that cannot be printed.
RECURSIVE PrintablePrefix(_)
PrintablePrefix(rs) ==
    IF rs = <<>> \/ ~Printable(Head(rs)) THEN <<>>
    ELSE <<Head(rs)>> \o PrintablePrefix(Tail(rs))

\* Lines 159-166: the change summary.
PrintChanges ==
    /\ pc = "print_changes"
    /\ LET all == added \o removed
           ok == PrintablePrefix(added) \o
                 (IF PrintablePrefix(added) = added THEN PrintablePrefix(removed) ELSE <<>>)
       IN IF all = <<>>
          THEN /\ out' = <<"No changes since last run.">>
               /\ pc' = After("print_changes")
               /\ err' = err
          ELSE /\ out' = <<"Changes since last run:">>
                         \o SummaryLines("+", SubSeq(ok, 1, Len(PrintablePrefix(added))))
                         \o SummaryLines("-", SubSeq(ok, Len(PrintablePrefix(added)) + 1, Len(ok)))
               /\ IF ok = all
                  THEN pc' = After("print_changes") /\ err' = err
                  ELSE pc' = "failed" /\ err' = "KeyError"
    /\ UNCHANGED <<runs, fLatest, fPrev, fCsv, startFiles, written, pageMode,
                   pageAct, last_h, idle, log, cards, rows, prev, added, removed>>

\* Line 169 with prev for rows.
RotateWritesPrev ==
    /\ pc = "rotate"
    /\ fPrev' = save_json(prev)
    /\ written' = written \cup {STATE_PREV}
    /\ pc' = After("rotate")
    /\ UNCHANGED <<err, runs, fLatest, fCsv, startFiles, pageMode,
                   pageAct, last_h, idle, log, cards, rows, prev, added, removed, out>>

\* Line 169.
Rotate ==
    /\ pc = "rotate"
    /\ fPrev' = save_json(rows)
    /\ written' = written \cup {STATE_PREV}
    /\ pc' = After("rotate")
    /\ UNCHANGED <<err, runs, fLatest, fCsv, startFiles, pageMode,
                   pageAct, last_h, idle, log, cards, rows, prev, added, removed, out>>

\* Lines 171-172.
Close ==
    /\ pc = "close"
    /\ pc' = After("close")
    /\ UNCHANGED <<err, runs, fLatest, fPrev, fCsv, startFiles, written, pageMode,
                   pageAct, last_h, idle, log, cards, rows, prev, added, removed, out>>

\* An await of run raises (a timeout, a crashed driver) or the run is cancelled.
Fail ==
    /\ pc \in AwaitPoints
    /\ pc' = "failed"
    /\ err' = "automation"
    /\ UNCHANGED <<runs, fLatest, fPrev, fCsv, startFiles, written, pageMode,
                   pageAct, last_h, idle, log, cards, rows, prev, added, removed, out>>

Init ==
    /\ pc = "idle"
    /\ err = "none"
    /\ runs = 0
    /\ fLatest = Absent
    /\ fPrev \in InitPrevFiles
    /\ fCsv = Absent
    /\ startFiles = <<fLatest, fPrev, fCsv>>
    /\ written = {}
    /\ pageMode = "free"
    /\ pageAct = "none"
    /\ last_h = 0
    /\ idle = 0
    /\ log = <<>>
    /\ cards = <<>>
    /\ rows = <<>>
    /\ prev = <<>>
    /\ added = <<>>
    /\ removed = <<>>
    /\ out = <<>>

Next ==
    \/ StartRun
    \/ Launch
    \/ Goto
    \/ AutoScrollEnter
    \/ ScrollBottom
    \/ ScrollWait
    \/ ScrollMeasure
    \/ ScrollTop
    \/ Extract
    \/ LoadPrev
    \/ SaveLatest
    \/ SaveCsv
    \/ Diff
    \/ PrintChanges
    \/ Rotate
    \/ Close
    \/ Fail

Spec == Init /\ [][Next]_vars

(***************************************************************************)
(* extract_cards alone, on every page of up to MaxCards cards              *)
(***************************************************************************)
Quiet ==
    /\ err = "none"
    /\ runs = 1
    /\ fLatest = Absent
    /\ fPrev = Absent
    /\ fCsv = Absent
    /\ startFiles = <<Absent, Absent, Absent>>
    /\ written = {}
    /\ pageAct = "none"
    /\ last_h = 0
    /\ idle = 0
    /\ log = <<>>
    /\ added = <<>>
    /\ removed = <<>>
    /\ out = <<>>

ExtractInit ==
    /\ Quiet
    /\ pc = "extract_cards"
    /\ pageMode = "free"
    /\ cards \in Pages
    /\ rows = <<>>
    /\ prev = <<>>

\* Line 148 on the page at hand.
ExtractCards ==
    /\ pc = "extract_cards"
    /\ rows' = extract_cards(cards)
    /\ pc' = After("extract_cards")
    /\ UNCHANGED <<err, runs, fLatest, fPrev, fCsv, startFiles, written, pageMode,
                   pageAct, last_h, idle, log, cards, prev, added, removed, out>>

ExtractNext == ExtractCards

ExtractSpec == ExtractInit /\ [][ExtractNext]_vars

(***************************************************************************)
(* diff alone, on every pair of snapshots of up to MaxSnap records         *)
(***************************************************************************)
DiffInit ==
    /\ Quiet
    /\ pc = "diff"
    /\ pageMode = "free"
    /\ cards = <<>>
    /\ rows \in Snapshots
    /\ prev \in Snapshots

DiffNext == Diff

DiffSpec == DiffInit /\ [][DiffNext]_vars

(***************************************************************************)
(* auto_scroll alone, on free, settling and oscillating pages              *)
(***************************************************************************)
ScrollInit ==
    /\ Quiet
    /\ pc = "auto_scroll"
    /\ pageMode \in {"free", "settled", "osc"}
    /\ cards = <<>>
    /\ rows = <<>>
    /\ prev = <<>>

ScrollNext ==
    \/ AutoScrollEnter
    \/ ScrollBottom
    \/ ScrollWait
    \/ ScrollMeasure
    \/ ScrollTop
    \/ PageSettles

\* The event loop resumes the coroutine whenever the page has answered.
ScrollSpec ==
    /\ ScrollInit
    /\ [][ScrollNext]_vars
    /\ WF_vars(AutoScrollEnter)
    /\ WF_vars(ScrollBottom)
    /\ WF_vars(ScrollWait)
    /\ WF_vars(ScrollMeasure)
    /\ WF_vars(ScrollTop)

(***************************************************************************)
(* Properties                                                              *)
(***************************************************************************)
AfterLoad == {"save_latest", "save_csv", "diff", "print_changes", "rotate", "close", "done"}
AfterDiff == {"print_changes", "rotate", "close", "done"}

\* C1: offers_latest.prev.json is read before the run has written any state
\* file, so the baseline of the diff is what the file held when the run
\* started, and the change lists are the diff of that baseline with the rows.
C1_PrevReadBeforeAnyWrite ==
    /\ pc = "load_prev" => written = {}
    /\ pc \in AfterLoad => prev = load_json(startFiles[2])
    /\ pc \in AfterDiff => <<added, removed>> = diff(load_json(startFiles[2]), rows)

\* A second run about to compare its rows with the other rows of the first run.
C1_Witness ==
    /\ pc = "diff"
    /\ runs = 2
    /\ written # {}
    /\ prev # <<>>
    /\ prev # rows
    /\ startFiles[2] = startFiles[1]

\* C2: a run that ended in a failure or was cancelled left the three state
\* files exactly as they were when it started.
C2_FailedRunLeavesFiles == pc = "failed" => Files = startFiles

\* C3: at the end of a completed run offers_latest.prev.json and
\* offers_latest.json hold the same content, the rows of that run.
C3_PrevEqualsLatestAtEnd ==
    pc = "done" =>
        /\ fPrev = fLatest
        /\ fLatest.kind = "json"
        /\ fLatest.val = rows

\* A second run completed with rows other than those of the run before it.
C3_Witness ==
    /\ pc = "done"
    /\ runs = 2
    /\ rows # <<>>
    /\ startFiles[2].kind = "json"
    /\ startFiles[2] = startFiles[1]
    /\ startFiles[2] # fPrev

\* C4: whatever offers_latest.prev.json holds, it does not abort the run: an
\* absent or unparseable file loads as the empty list, and no run ends in an
\* error raised on a record of the previous snapshot.
C4_PrevFileNeverAborts ==
    /\ (pc \in AfterLoad /\ startFiles[2].kind \in {"absent", "corrupt"}) => prev = <<>>
    /\ pc = "failed" => err # "KeyError"

\* The (brand, title) key of a record, a missing field being None.
ClaimKey(o) ==
    <<IF "brand" \in DOMAIN o THEN <<o.brand>> ELSE <<>>,
      IF "title" \in DOMAIN o THEN <<o.title>> ELSE <<>> >>

KeyOccursIn(o, rs) == \E i \in 1..Len(rs) : ClaimKey(rs[i]) = ClaimKey(o)

\* The records of a whose key occurs in no record of b, in the order of a.
RECURSIVE KeyNotIn(_, _)
KeyNotIn(a, b) ==
    IF a = <<>> THEN <<>>
    ELSE (IF KeyOccursIn(Head(a), b) THEN <<>> ELSE <<Head(a)>>) \o KeyNotIn(Tail(a), b)

Elems(q) == {q[i] : i \in 1..Len(q)}

\* C5: added is the records of new whose (brand, title) occurs in no record
\* of old, in new's order; removed the records of old whose key occurs in no
\* record of new, in old's order; a record whose key is on both sides is in
\* neither list.
C5_DiffByBrandTitle ==
    pc = "print_changes" =>
        /\ added = KeyNotIn(rows, prev)
        /\ removed = KeyNotIn(prev, rows)
        /\ \A r \in Elems(rows) \cup Elems(prev) :
              (KeyOccursIn(r, rows) /\ KeyOccursIn(r, prev)) =>
                  r \notin Elems(added) \cup Elems(removed)

\* A diff with an addition, a removal, and a record that changed its link only.
C5_Witness ==
    /\ pc = "print_changes"
    /\ added # <<>>
    /\ removed # <<>>
    /\ \E r \in Elems(rows) : KeyOccursIn(r, prev) /\ r \notin Elems(prev)

Triple(r) == <<r.brand, r.title, r.link>>

\* The first card of cs whose record has the triple of the record of cs[i].
FirstWith(cs, i) ==
    CHOOSE k \in 1..i :
        /\ Triple(CardRecord(cs[k])) = Triple(CardRecord(cs[i]))
        /\ \A m \in 1..(k - 1) : Triple(CardRecord(cs[m])) # Triple(CardRecord(cs[i]))

\* C6: the output of extract_cards holds no two records with the same
\* (brand, title, link), and for each triple among the cards it holds the
\* record of the first card with that triple (and nothing else).
C6_DedupFirstWins ==
    pc = "load_prev" =>
        /\ \A i, j \in 1..Len(rows) : Triple(rows[i]) = Triple(rows[j]) => i = j
        /\ \A i \in 1..Len(cards) : CardRecord(cards[FirstWith(cards, i)]) \in Elems(rows)
        /\ \A r \in Elems(rows) : \E i \in 1..Len(cards) : r = CardRecord(cards[i])

\* A page on which a later card repeats a triple with other categories.
C6_Witness ==
    /\ pc = "load_prev"
    /\ Len(rows) = 2
    /\ \E i, k \in 1..Len(cards) :
          /\ i < k
          /\ Triple(CardRecord(cards[i])) = Triple(CardRecord(cards[k]))
          /\ CardRecord(cards[i]) # CardRecord(cards[k])

InOrder(r1, r2) ==
    LET p1 == r1.discount_percent
        p2 == r2.discount_percent
    IN \/ p1 # <<>> /\ p2 # <<>> /\ p1[1] > p2[1]
       \/ p1 = p2 /\ StrLeq(r1.brand, r2.brand)
       \/ p1 # <<>> /\ p2 = <<>>

\* C7: adjacent records of the output are in order (greater percentage first,
\* then brand ascending, an absent percentage after every present one), and
\* no record without a percentage precedes one with a percentage, 0 included.
C7_SortedOutput ==
    pc = "load_prev" =>
        /\ \A i \in 1..(Len(rows) - 1) : InOrder(rows[i], rows[i + 1])
        /\ \A i, j \in 1..Len(rows) :
              (i < j /\ rows[i].discount_percent = <<>>) => rows[j].discount_percent = <<>>

\* An output with a 0 percent record right before one without a percentage,
\* extracted from cards that came in the other order.
C7_Witness ==
    /\ pc = "load_prev"
    /\ Len(rows) = 3
    /\ rows[2].discount_percent = <<0>>
    /\ rows[3].discount_percent = <<>>
    /\ CardRecord(cards[1]) = rows[3]
    /\ rows[1].discount_percent = <<0>>

\* C8: the diff of a snapshot with itself has no additions and no removals.
C8_DiffSelfEmpty ==
    (pc = "print_changes" /\ prev = rows) => (added = <<>> /\ removed = <<>>)

\* A snapshot with two records of one (brand, title) and two links, diffed with itself.
C8_Witness ==
    /\ pc = "print_changes"
    /\ prev = rows
    /\ Len(rows) = 2
    /\ ClaimKey(rows[1]) = ClaimKey(rows[2])
    /\ rows[1] # rows[2]

\* C9: in auto_scroll the counter is the number of measurements in a row, up
\* to now, that did not exceed their predecessor (0 before the first); a
\* round is under way only with the counter below idle_rounds; the
\* loop is left with the counter at idle_rounds, after at least idle_rounds
\* rounds, the last idle_rounds of them non-increases, and the scroll to the
\* top is the last page action.
C9_ScrollStopsAtIdleRounds ==
    /\ pc \in {"scroll_loop", "scroll_wait", "scroll_measure"} =>
          (idle = TrailingNonInc(log) /\ idle <= IdleRounds)
    /\ pc \in {"scroll_wait", "scroll_measure"} =>
          (idle < IdleRounds /\ pageAct = "scrollTo(0, document.body.scrollHeight)")
    /\ pc = "extract_cards" =>
          /\ idle = IdleRounds
          /\ Len(log) >= IdleRounds + 1
          /\ \A i \in (Len(log) - IdleRounds + 1)..Len(log) : log[i] <= log[i - 1]
          /\ pageAct = "scrollTo(0, 0)"

\* auto_scroll has returned on a page that had grown before it went idle.
C9_Witness ==
    /\ pc = "extract_cards"
    /\ Len(log) = IdleRounds + 1
    /\ log[1] > 0
    /\ log[IdleRounds + 1] < log[1]

\* C10: auto_scroll returns on every page whose height stops increasing, and
\* never returns on a page whose height increases at least once in every
\* idle_rounds measurements.
C10_ScrollTerminatesIffSettles ==
    /\ (pageMode = "settled") ~> (pc = "extract_cards")
    /\ [](pageMode = "osc" => pc # "extract_cards")

\* auto_scroll has returned on a page that grew and then settled.
C10_Witness ==
    /\ pageMode = "settled"
    /\ pc = "extract_cards"
    /\ Len(log) = IdleRounds + 1
    /\ log[1] > log[IdleRounds + 1]

====
